---- MODULE Spec2Model ----
(***************************************************************************)
(* disgm: the authenticated real-time event router.                        *)
(*   - TokenMiddleware (the authentication gate), in its two table         *)
(*     encodings: credential -> id (direct) and id -> credential (reversed)*)
(*   - the clients registry and the lifecycle of one /ws connection, in    *)
(*     its two versions: NewWebSocket + WS.handleMessages, and the older   *)
(*     WebSocket + handleMessages                                          *)
(*   - the discordgo event handler and EventCall (fan-out).                *)
(* Go strings that the code splits are sequences of lexemes; SP is the     *)
(* blank.  A Go map is a function; ranging over it visits the keys in any  *)
(* order.                                                                  *)
(***************************************************************************)
EXTENDS Integers, Sequences, FiniteSets, TLC

\* ------------------------------------------------------------- bounds
MaxEvents == 1
MaxMsgs == 1
MaxNew == 2

\* ------------------------------------------------------------- values
SP == " "
NoID == "<nil>"
Greeting == "You are connected."
StatusUnauthorized == 401

\* The connection handles (*websocket.Conn) the server hands out, in this order.
Conns == {1, 2}

Credentials == {"tok-1", "tok-2"}
WorkspaceIDs == {"guild-42", "guild-99"}

\* Authorization header values, as lexeme sequences (<<>> is the absent header).
Headers ==
  { <<>>,
    <<"Bearer">>,
    <<"tok-1">>,
    <<"Basic", SP, "tok-1">>,
    <<"Bearer", SP, "tok-1">>,
    <<"Bearer", SP, "tok-2">>,
    <<"Bearer", SP, "unknown">>,
    <<"Bearer", SP, SP, "tok-1">>,
    <<"Bearer", SP, "tok-1", SP, "x">> }

Paths == {"/ws", "/api/guild", "/swagger/index.html"}

\* Tables that TokenStore.Load() can return: every map from some keys to values.
Maps(K, V) == UNION { [D -> V] : D \in SUBSET K }
DirectTables == Maps(Credentials, WorkspaceIDs)
ReversedTables == Maps(WorkspaceIDs, Credentials)

\* ------------------------------------------------------------- strings.Split
RECURSIVE SplitFrom(_, _)
SplitFrom(s, cur) ==
  IF s = <<>> THEN <<cur>>
  ELSE IF Head(s) = SP THEN <<cur>> \o SplitFrom(Tail(s), "")
  ELSE SplitFrom(Tail(s), cur \o Head(s))

Split(s) == SplitFrom(s, "")

\* ------------------------------------------------------------- state
VARIABLES
  mwVersion,  \* which TokenMiddleware is built: "direct" or "reversed" table
  wsVersion,  \* which lifecycle is built: "NewWebSocket" or "WebSocket"
  opt,        \* disgm.opt: [TokenStore |-> "nil" or "store"]
  defaultOptions, \* the package variable that every disgm.opt points to
  disgms,     \* the instances New has returned, in order
  listen,     \* the call of Listen and the goroutine it starts
  crashed,    \* the process died of an unrecovered panic
  last,       \* the request under observation and what TokenMiddleware did with it
  pc,         \* per connection: where its /ws handler goroutine stands
  ctxID,      \* per connection: c.Locals("ID") of its upgrade request
  upgrade,    \* per connection: facts about its upgrade request
  clients,    \* the registry: map from connection to id
  open,       \* per connection: the handle has not been closed
  closes,     \* per connection: number of conn.Close() calls
  deregs,     \* per connection: number of delete(clients, conn) calls
  greeted,    \* per connection: the greeting write returned nil
  sent,       \* per connection: messages written successfully, in order
  inbox,      \* per connection: number of client messages read so far
  handled,    \* per connection: the messages the message handler was called with, by number
  fault,      \* what the process died of
  calls,      \* per handler goroutine: the EventCall it is in
  done,       \* the event that arrived last and what the handler did with it
  returned,   \* what the EventCall that returned last returned
  nEvents,    \* number of platform events delivered to the handler
  budget      \* number of platform events of the run

cfgVars == <<mwVersion, wsVersion, opt, defaultOptions, disgms, listen>>
gateVars == <<last>>
connVars == <<pc, ctxID, upgrade, clients, open, closes, deregs, greeted, sent, inbox, handled>>
evVars == <<calls, done, returned, nEvents, budget>>
vars == <<cfgVars, crashed, fault, gateVars, connVars, evVars>>

\* The two middleware versions, and disgm.opt.TokenStore being nil or set.
Versions == {"direct", "reversed"}
Stores == {"nil", "store"}

Tables(v) == IF v = "direct" THEN DirectTables ELSE ReversedTables

\* ------------------------------------------------------------- TokenMiddleware
\* v is the version of the middleware, store is disgm.opt.TokenStore.

\* c.Status(fiber.StatusUnauthorized).SendString("Unauthorized")
Unauthorized(loads) ==
  [kind |-> "reject", status |-> StatusUnauthorized, body |-> "Unauthorized",
   id |-> NoID, nexts |-> 0, loads |-> loads]

\* Mutant: the debugging lines left in (a fixed id is bound).
AcceptDebugID(id, loads) ==
  [kind |-> "next", status |-> 0, body |-> "", id |-> "561234976788447232", nexts |-> 1,
   loads |-> loads]

\* c.Locals("ID", id); return c.Next()
Accept(id, loads) ==
  [kind |-> "next", status |-> 0, body |-> "", id |-> id, nexts |-> 1, loads |-> loads]

\* splToken[1] on a one-element slice: index out of range, no response is written
IndexPanic(loads) ==
  [kind |-> "panic", status |-> 0, body |-> "", id |-> NoID, nexts |-> 0, loads |-> loads]

\* Mutant: the lookup does not compare the credential.
LookupIgnoringCredential(v, tokens, cred) ==
  IF v = "direct" THEN {tokens[k] : k \in DOMAIN tokens} ELSE DOMAIN tokens

\* The ids the lookup can bind: tokens[cred] in the direct table, the keys k
\* with tokens[k] = cred in the reversed one (the range stops at the first hit).
Lookup(v, tokens, cred) ==
  IF v = "direct"
  THEN IF cred \in DOMAIN tokens THEN {tokens[cred]} ELSE {}
  ELSE {k \in DOMAIN tokens : tokens[k] = cred}

\* Whether the code evaluates splToken[1] once Load() has returned the table:
\* always in the direct version, inside the range body in the reversed one.
ReadsCredential(v, tokens) ==
  v = "direct" \/ DOMAIN tokens # {}

\* Mutant: the store's error is returned to Fiber's ErrorHandler.
LoadFailedInternal(loads) ==
  [kind |-> "reject", status |-> 500, body |-> "Internal Server Error",
   id |-> NoID, nexts |-> 0, loads |-> loads]

\* What Load() failing leads to.
LoadFailed(loads) == Unauthorized(loads)

\* The set of outcomes of TokenMiddleware for one request.
TokenMiddleware(v, store, hdr, tokens, loadErr) ==
  LET splToken == Split(hdr) IN
  IF splToken[1] = "Bearer" /\ store # "nil"
  THEN IF loadErr THEN {LoadFailed(1)}
       ELSE IF Len(splToken) < 2
            THEN IF ReadsCredential(v, tokens) THEN {IndexPanic(1)} ELSE {Unauthorized(1)}
            ELSE LET ids == Lookup(v, tokens, splToken[2]) IN
                 IF ids = {} THEN {Unauthorized(1)}
                 ELSE {Accept(id, 1) : id \in ids}
  ELSE {Unauthorized(0)}

\* ------------------------------------------------------------- handler chain
\* The handlers in registration order: New (app.Use, app.Get), then
\* RegisterApiRouter and RegisterWebSocket.  Fiber runs them in this order.
Chain == <<"cors", "logger", "TokenMiddleware", "/swagger/*", "/api", "/ws">>

Index(h) == CHOOSE i \in 1..Len(Chain) : Chain[i] = h

\* The route that serves a path.
Route(path) ==
  IF path = "/ws" THEN "/ws"
  ELSE IF path = "/api/guild" THEN "/api"
  ELSE "/swagger/*"

\* The request reaches its route only through the handlers registered before it.
GateFirst(path) == Index("TokenMiddleware") < Index(Route(path))

NotRun == [kind |-> "skipped", status |-> 0, body |-> "", id |-> NoID, nexts |-> 1, loads |-> 0]

\* ------------------------------------------------------------- the request's credential
HasBearer(hdr) == Len(Split(hdr)) >= 2 /\ Split(hdr)[1] = "Bearer"
Credential(hdr) == Split(hdr)[2]
InTable(v, tokens, cred) ==
  IF v = "direct" THEN cred \in DOMAIN tokens
  ELSE \E k \in DOMAIN tokens : tokens[k] = cred
Associated(v, tokens, cred, id) ==
  IF v = "direct" THEN cred \in DOMAIN tokens /\ tokens[cred] = id
  ELSE id \in DOMAIN tokens /\ tokens[id] = cred

\* The request presents a Bearer credential that the table of the store holds.
Known(v, store, hdr, tokens, loadErr) ==
  /\ store # "nil"
  /\ ~loadErr
  /\ HasBearer(hdr)
  /\ InTable(v, tokens, Credential(hdr))

\* ------------------------------------------------------------- event values
\* JSON values of the payload: strings and numbers.
Str(v) == [t |-> "string", v |-> v]
Num(v) == [t |-> "number", v |-> v]

\* e.RawData: bytes that do or do not decode into a JSON object.
Malformed == [json |-> "malformed", fields |-> <<>>]
Object(f) == [json |-> "object", fields |-> f]

Payloads ==
  { Malformed,
    Object([guild_id |-> Str("guild-42"), content |-> Str("hi")]),
    Object([content |-> Str("hi")]),
    Object([guild_id |-> Num("42")]) }

EventTypes == {"MESSAGE_CREATE", "TYPING_START"}

\* The allow-list of registerDiscordHandlers.
events ==
  { "GUILD_UPDATE", "VOICE_STATE_UPDATE", "GUILD_MEMBER_ADD", "GUILD_MEMBER_UPDATE",
    "GUILD_MEMBER_REMOVE", "GUILD_BAN_ADD", "GUILD_BAN_REMOVE", "CHANNEL_CREATE",
    "CHANNEL_UPDATE", "CHANNEL_DELETE", "GUILD_ROLE_CREATE", "GUILD_ROLE_UPDATE",
    "GUILD_ROLE_DELETE", "MESSAGE_CREATE", "MESSAGE_UPDATE", "MESSAGE_DELETE",
    "MESSAGE_REACTION_ADD", "MESSAGE_REACTION_REMOVE", "MESSAGE_REACTION_REMOVE_ALL",
    "INTERACTION_CREATE" }

\* ------------------------------------------------------------- New
\* var defaultOptions = Options{DisableStartupMessage: false, DisableLogger: false}
Defaults ==
  [TokenStore |-> "nil", DisableStartupMessage |-> FALSE, DisableLogger |-> FALSE,
   WSMessageHandlerFunc |-> "nil"]

\* The Options a caller can pass: a store or none, the two switches, a handler
\* of its own or none.
OptionArgs ==
  [TokenStore : Stores, DisableStartupMessage : BOOLEAN, DisableLogger : BOOLEAN,
   WSMessageHandlerFunc : {"nil", "custom"}]

\* The variadic argument of New: no Options, or one.
Variadic == {<<>>} \cup {<<o>> : o \in OptionArgs}

\* opt := &defaultOptions; if len(options) > 0 { ... }: the fields of
\* options[0] that are set are written over those of the Options opt points to.
Merged(into, options) ==
  IF Len(options) > 0
  THEN LET o == options[1] IN
       [TokenStore |-> IF o.TokenStore # "nil" THEN o.TokenStore ELSE into.TokenStore,
        DisableStartupMessage |->
          IF o.DisableStartupMessage THEN TRUE ELSE into.DisableStartupMessage,
        DisableLogger |-> IF o.DisableLogger THEN TRUE ELSE into.DisableLogger,
        WSMessageHandlerFunc |->
          IF o.WSMessageHandlerFunc # "nil" THEN o.WSMessageHandlerFunc ELSE "default"]
  ELSE into

\* d = &Disgm{opt: opt, ..., WSMessageHandlerFunc: opt.WSMessageHandlerFunc}, with
\* the fiber app configured from opt as it is now; given is what the caller passed.
Built(o, given) ==
  [given |-> given, WSMessageHandlerFunc |-> o.WSMessageHandlerFunc,
   startupMessage |-> ~o.DisableStartupMessage, logger |-> ~o.DisableLogger]

\* The one New call of a program like examples/main.go: with a store, or with
\* no Options at all.
GivenFor(store) ==
  IF store = "nil" THEN <<>>
  ELSE <<[TokenStore |-> store, DisableStartupMessage |-> FALSE, DisableLogger |-> FALSE,
          WSMessageHandlerFunc |-> "nil"]>>

\* Listen: not called; called and returned nil with the server accepting.
NotListening == [pc |-> "none", g |-> "none", err |-> "nil", ret |-> "none"]
Serving == [pc |-> "returned", g |-> "serving", err |-> "nil", ret |-> "nil"]

\* ------------------------------------------------------------- Init
NoOut == [kind |-> "none", status |-> 0, body |-> "", id |-> NoID, nexts |-> 0, loads |-> 0]
NoReq == [seen |-> FALSE, hdr |-> <<>>, path |-> "", tokens |-> <<>>, loadErr |-> FALSE,
          out |-> NoOut]
NoUpgrade == [gate |-> "none", known |-> FALSE]
NoFault == [why |-> "none", by |-> 0]

\* The goroutines discordgo runs the handler in: one per event in flight.
Slots == {1, 2}
Idle == [pc |-> "idle"]
NoEvent == [is |-> "none", parsed |-> FALSE, called |-> FALSE, reported |-> FALSE]

\* The state of a process that has just started: no connection, empty registry.
Fresh ==
  /\ pc = [c \in Conns |-> "none"]
  /\ ctxID = [c \in Conns |-> NoID]
  /\ upgrade = [c \in Conns |-> NoUpgrade]
  /\ clients = <<>>
  /\ open = [c \in Conns |-> FALSE]
  /\ closes = [c \in Conns |-> 0]
  /\ deregs = [c \in Conns |-> 0]
  /\ greeted = [c \in Conns |-> FALSE]
  /\ sent = [c \in Conns |-> <<>>]
  /\ inbox = [c \in Conns |-> 0]
  /\ handled = [c \in Conns |-> <<>>]
  /\ calls = [h \in Slots |-> Idle]
  /\ done = NoEvent
  /\ returned = "none"
  /\ nEvents = 0

\* The server after New: either build, with or without a store, and the
\* platform stream about to deliver n events.
Start(n) ==
  /\ mwVersion \in Versions
  /\ wsVersion \in {"NewWebSocket", "WebSocket"}
  /\ opt \in [TokenStore : Stores]
  /\ defaultOptions = Merged(Defaults, GivenFor(opt.TokenStore))
  /\ disgms = <<Built(defaultOptions, GivenFor(opt.TokenStore))>>
  /\ listen = Serving
  /\ budget = n
  /\ crashed = FALSE
  /\ fault = NoFault
  /\ last = NoReq
  /\ Fresh

Init == Start(MaxEvents)

\* An unrecovered panic or a fatal runtime error ends the process: its memory
\* (the registry, the goroutines, the handles) is gone.
Crash(why, by) ==
  /\ crashed' = TRUE
  /\ fault' = [why |-> why, by |-> by]
  /\ pc' = [c \in Conns |-> "none"]
  /\ ctxID' = [c \in Conns |-> NoID]
  /\ upgrade' = [c \in Conns |-> NoUpgrade]
  /\ clients' = <<>>
  /\ open' = [c \in Conns |-> FALSE]
  /\ closes' = [c \in Conns |-> 0]
  /\ deregs' = [c \in Conns |-> 0]
  /\ greeted' = [c \in Conns |-> FALSE]
  /\ sent' = [c \in Conns |-> <<>>]
  /\ inbox' = [c \in Conns |-> 0]
  /\ handled' = [c \in Conns |-> <<>>]
  /\ calls' = [h \in Slots |-> Idle]
  /\ done' = NoEvent
  /\ returned' = "none"
  /\ nEvents' = 0
  /\ UNCHANGED <<cfgVars, budget>>

\* ------------------------------------------------------------- a request
FreeConns == {c \in Conns : pc[c] = "none"}

\* One HTTP request runs down the chain: what the gate did with it, whether its
\* route is the /ws upgrade, and whether its credential is one the store holds.
Serve(v, store, hdr, path, tokens, loadErr) ==
  { [out |-> o, ws |-> (Route(path) = "/ws"), known |-> Known(v, store, hdr, tokens, loadErr)] :
      o \in (IF GateFirst(path) THEN TokenMiddleware(v, store, hdr, tokens, loadErr)
             ELSE {NotRun}) }

\* Every way a request can be served, per build and store.
ServeAny ==
  [v \in Versions, store \in Stores |->
     UNION { Serve(v, store, hdr, path, tokens, loadErr) :
               hdr \in Headers, path \in Paths, tokens \in Tables(v), loadErr \in BOOLEAN }]

\* The effect of a served request.  A request that reached the /ws route is
\* upgraded: its connection handler starts with the locals of the request.
\* A panic of the gate is not recovered (New installs no recover handler).
Served(r, observed) ==
  /\ ~crashed
  /\ last' = observed
  /\ IF r.out.kind = "panic" THEN Crash("gate", 0)
     ELSE /\ IF r.out.nexts = 1 /\ r.ws
             THEN /\ FreeConns # {}
                  /\ LET c == CHOOSE x \in FreeConns : \A y \in FreeConns : x <= y IN
                     /\ pc' = [pc EXCEPT ![c] = "upgraded"]
                     /\ ctxID' = [ctxID EXCEPT ![c] = r.out.id]
                     /\ open' = [open EXCEPT ![c] = TRUE]
                     /\ upgrade' = [upgrade EXCEPT ![c] =
                                      [gate |-> r.out.kind, known |-> r.known]]
                  /\ UNCHANGED <<clients, closes, deregs, greeted, sent, inbox, handled>>
             ELSE UNCHANGED connVars
          /\ UNCHANGED <<cfgVars, crashed, fault, evVars>>

\* Any request, as the running server sees it.
Request ==
  \E r \in ServeAny[mwVersion, opt.TokenStore] : Served(r, last)

\* One request, with the request and the gate's answer kept for inspection.
ObservedRequest ==
  /\ ~last.seen
  /\ \E hdr \in Headers, path \in Paths, tokens \in Tables(mwVersion), loadErr \in BOOLEAN :
       \E r \in Serve(mwVersion, opt.TokenStore, hdr, path, tokens, loadErr) :
          Served(r, [seen |-> TRUE, hdr |-> hdr, path |-> path, tokens |-> tokens,
                     loadErr |-> loadErr, out |-> r.out])

\* ------------------------------------------------------------- connection lifecycle
\* conn.Close() and delete(clients, conn)
Closed(c) == [open EXCEPT ![c] = FALSE]
Deleted(c) == [x \in DOMAIN clients \ {c} |-> clients[x]]

\* Mutant: one id shared by all entries (the newest one).
RegisteredShared(c, id) == [x \in DOMAIN clients \cup {c} |-> id]

\* The accesses to the clients map hold no lock.  A write by the handler of c
\* can run while an EventCall ranges over the map or while another handler is
\* at its own write; the Go runtime may detect it and end the process
\* ("concurrent map iteration and map write", "concurrent map writes").
Racing(c) ==
  \/ \E h \in Slots : calls[h].pc = "range"
  \/ \E d \in Conns \ {c} : pc[d] = "delete" \/ (pc[d] = "upgraded" /\ ctxID[d] # NoID)

\* ID := c.Locals("ID").(string); NewWebSocket / WebSocket: clients[conn] = id
Registered(c, id) == [x \in DOMAIN clients \cup {c} |-> IF x = c THEN id ELSE clients[x]]

\* A panic in the /ws connection handler ends the handler; whether it ends the
\* process depends on the websocket library recovering handler panics.
HandlerPanic(c) ==
  \/ Crash("handler", c)
  \/ /\ pc' = [pc EXCEPT ![c] = "panicked"]
     /\ UNCHANGED <<cfgVars, crashed, fault, evVars, ctxID, upgrade, clients, open, closes, deregs,
                    greeted, sent, inbox, handled>>

Register(c) ==
  /\ ~crashed
  /\ pc[c] = "upgraded"
  /\ IF ctxID[c] = NoID
     THEN HandlerPanic(c)
     ELSE \/ /\ pc' = [pc EXCEPT ![c] = "greet"]
             /\ clients' = Registered(c, ctxID[c])
             /\ UNCHANGED <<cfgVars, crashed, fault, evVars, ctxID, upgrade, open, closes,
                            deregs, greeted, sent, inbox, handled>>
          \/ /\ Racing(c)
             /\ Crash("race", c)
  /\ UNCHANGED gateVars

\* What a connection was sent: the greeting text, or the JSON of an event
\* envelope, with the arrival number of the event it was made from.
Text(body) == [json |-> FALSE, body |-> body, seq |-> 0]
Frame(event, seq) == [json |-> TRUE, body |-> event, seq |-> seq]

\* The goroutines that are at a WriteMessage on the handle of c: its handler
\* at the greeting, the EventCalls that stopped at c.  Nothing makes one wait
\* for another.
WritersOf(c) ==
  {<<"handler", d>> : d \in {x \in {c} : pc[x] = "greet"}}
    \cup {<<"event", h>> : h \in {x \in Slots : calls[x].pc = "write" /\ calls[x].target = c}}

\* Two writes on one handle at a time: the websocket library may detect it
\* and panic in the writing goroutine, which ends the process.
WriteRace(c) ==
  /\ Cardinality(WritersOf(c)) > 1
  /\ Crash("write", c)
  /\ UNCHANGED gateVars

\* conn.WriteMessage(websocket.TextMessage, "You are connected."): NewWebSocket
\* returns after it (with the error, if any); WebSocket ignores the error and
\* calls handleMessages.
Greet(c, ok) ==
  /\ ~crashed
  /\ pc[c] = "greet"
  /\ ok => open[c]
  /\ \/ /\ greeted' = [greeted EXCEPT ![c] = ok]
        /\ sent' = [sent EXCEPT ![c] = IF ok THEN Append(@, Text(Greeting)) ELSE @]
        /\ pc' = [pc EXCEPT ![c] = IF wsVersion = "NewWebSocket" THEN "return" ELSE "read"]
        /\ UNCHANGED <<cfgVars, crashed, fault, gateVars, evVars, ctxID, upgrade, clients, open,
                       closes, deregs, inbox, handled>>
     \/ WriteRace(c)

\* NewWebSocket returns: its deferred conn.Close() runs, on both paths.
NewWebSocketReturn(c) ==
  /\ ~crashed
  /\ pc[c] = "return"
  /\ open' = Closed(c)
  /\ closes' = [closes EXCEPT ![c] = @ + 1]
  /\ pc' = [pc EXCEPT ![c] = IF greeted[c] THEN "read" ELSE "error"]
  /\ UNCHANGED <<cfgVars, crashed, fault, gateVars, evVars, ctxID, upgrade, clients, deregs,
                 greeted, sent, inbox, handled>>

\* err != nil in the /ws handler: log.Printf reads ws.id and ws.conn of the nil
\* *WS, a nil pointer dereference.
HandlerError(c) ==
  /\ ~crashed
  /\ pc[c] = "error"
  /\ HandlerPanic(c)
  /\ UNCHANGED gateVars

\* ws.conn.ReadMessage(): a message, or an error (peer close, I/O fault, or
\* the handle already closed), which breaks the loop.
ReadMessage(c, err) ==
  /\ ~crashed
  /\ pc[c] = "read"
  /\ ~open[c] => err
  /\ ~err => inbox[c] < MaxMsgs
  /\ inbox' = [inbox EXCEPT ![c] = IF err THEN @ ELSE @ + 1]
  /\ pc' = [pc EXCEPT ![c] = IF err THEN "close" ELSE "handle"]
  /\ UNCHANGED <<cfgVars, crashed, fault, gateVars, evVars, ctxID, upgrade, clients, open,
                 closes, deregs, greeted, sent, handled>>

\* Mutant: the handler is called twice with the message.
DispatchedTwice(c) == handled[c] \o <<inbox[c], inbox[c]>>

\* messageHandlerFunc(ws, ws.id, msg), msg being the message just read
\* (in the older handleMessages: the log line of the message).
Dispatched(c) == Append(handled[c], inbox[c])

MessageHandler(c) ==
  /\ ~crashed
  /\ pc[c] = "handle"
  /\ handled' = [handled EXCEPT ![c] = Dispatched(c)]
  /\ pc' = [pc EXCEPT ![c] = "read"]
  /\ UNCHANGED <<cfgVars, crashed, fault, gateVars, evVars, ctxID, upgrade, clients, open,
                 closes, deregs, greeted, sent, inbox>>

\* handleMessages' deferred function, first statement: ws.conn.Close()
HandleMessagesClose(c) ==
  /\ ~crashed
  /\ pc[c] = "close"
  /\ open' = Closed(c)
  /\ closes' = [closes EXCEPT ![c] = @ + 1]
  /\ pc' = [pc EXCEPT ![c] = "delete"]
  /\ UNCHANGED <<cfgVars, crashed, fault, gateVars, evVars, ctxID, upgrade, clients,
                 deregs, greeted, sent, inbox, handled>>

\* handleMessages' deferred function, second statement: delete(clients, ws.conn)
HandleMessagesDelete(c) ==
  /\ ~crashed
  /\ pc[c] = "delete"
  /\ \/ /\ clients' = Deleted(c)
        /\ deregs' = [deregs EXCEPT ![c] = @ + 1]
        /\ pc' = [pc EXCEPT ![c] = IF wsVersion = "WebSocket" THEN "unwind" ELSE "done"]
        /\ UNCHANGED <<cfgVars, crashed, fault, evVars, ctxID, upgrade, open, closes,
                       greeted, sent, inbox, handled>>
     \/ /\ Racing(c)
        /\ Crash("race", c)
  /\ UNCHANGED gateVars

\* WebSocket (the older lifecycle) returns: its deferred conn.Close() runs.
WebSocketReturn(c) ==
  /\ ~crashed
  /\ pc[c] = "unwind"
  /\ open' = Closed(c)
  /\ closes' = [closes EXCEPT ![c] = @ + 1]
  /\ pc' = [pc EXCEPT ![c] = "done"]
  /\ UNCHANGED <<cfgVars, crashed, fault, gateVars, evVars, ctxID, upgrade, clients,
                 deregs, greeted, sent, inbox, handled>>

\* ------------------------------------------------------------- platform events
\* json.Unmarshal(e.RawData, &data)
Unmarshal(raw) ==
  IF raw.json = "object" THEN [err |-> FALSE, data |-> raw.fields]
  ELSE [err |-> TRUE, data |-> <<>>]

\* Mutant: a guild_id of any JSON type is taken.
GuildIDLoose(data) ==
  IF "guild_id" \in DOMAIN data
  THEN [ok |-> TRUE, id |-> data["guild_id"].v]
  ELSE [ok |-> FALSE, id |-> ""]

\* guildID, ok := data["guild_id"].(string)
GuildID(data) ==
  IF "guild_id" \in DOMAIN data /\ data["guild_id"].t = "string"
  THEN [ok |-> TRUE, id |-> data["guild_id"].v]
  ELSE [ok |-> FALSE, id |-> ""]

\* Mutant: the id of the entry is not compared.
MatchesAny(id) == DOMAIN clients

\* for client, gid := range clients { if gid == id {...; return} }: the
\* connections the range can stop at.
Matches(id) == {c \in DOMAIN clients : clients[c] = id}

\* Mutant: the envelope carries the guild id alone, not the whole field bag.
EnvelopeOfID(name, data) == [name |-> name, data |-> [guild_id |-> data["guild_id"]]]

\* Event{Name: name, Data: data}
Envelope(name, data) == [name |-> name, data |-> data]

\* Mutant: no allow-list.
AllowedAny(type) == TRUE

\* slices.Contains(events, e.Type)
Allowed(type) == type \in events

\* What an event is to the router: of a kind it does not route, of a routed
\* kind with a payload that is no JSON object, with an object that has no
\* string guild_id, or routable.
Kind(type, raw) ==
  IF type \notin events THEN "other kind"
  ELSE IF raw.json # "object" THEN "unparsable"
  ELSE IF "guild_id" \notin DOMAIN raw.fields \/ raw.fields["guild_id"].t # "string"
       THEN "no guild_id"
  ELSE "routable"

\* What the handler did with an event: whether it called json.Unmarshal,
\* whether it called EventCall, whether it printed a report.
Handled(type, raw, parsed, called, reported) ==
  [is |-> Kind(type, raw), parsed |-> parsed, called |-> called, reported |-> reported]

FreeSlots == {h \in Slots : calls[h].pc = "idle"}

\* The handler added by registerDiscordHandlers, in its own goroutine (the
\* session is used as the caller made it; New leaves SyncEvents alone):
\* classify, parse, extract the guild id, enter EventCall.
DiscordHandler(type, raw) ==
  /\ ~crashed
  /\ nEvents < budget
  /\ nEvents' = nEvents + 1
  /\ IF ~Allowed(type)
     THEN done' = Handled(type, raw, FALSE, FALSE, FALSE) /\ UNCHANGED calls
     ELSE LET u == Unmarshal(raw) IN
          IF u.err
          THEN done' = Handled(type, raw, TRUE, FALSE, TRUE) /\ UNCHANGED calls
          ELSE LET g == GuildID(u.data) IN
               IF ~g.ok
               THEN done' = Handled(type, raw, TRUE, FALSE, TRUE) /\ UNCHANGED calls
               ELSE /\ FreeSlots # {}
                    /\ LET h == CHOOSE x \in FreeSlots : \A y \in FreeSlots : x <= y IN
                       calls' = [calls EXCEPT ![h] =
                                   [pc |-> "range", seq |-> nEvents + 1, id |-> g.id,
                                    name |-> type, data |-> u.data, writes |-> 0]]
                    /\ done' = Handled(type, raw, TRUE, TRUE, FALSE)
  /\ UNCHANGED <<cfgVars, crashed, fault, gateVars, connVars, returned, budget>>

\* for client, gid := range clients { if gid == id { ... } }; return nil
EventCallRange(h) ==
  /\ ~crashed
  /\ calls[h].pc = "range"
  /\ IF Matches(calls[h].id) = {}
     THEN /\ calls' = [calls EXCEPT ![h] = Idle]
          /\ returned' = "nil"
     ELSE /\ \E c \in Matches(calls[h].id) :
               calls' = [calls EXCEPT ![h] =
                           [pc |-> "write", seq |-> @.seq, id |-> @.id, name |-> @.name,
                            data |-> @.data, writes |-> @.writes, target |-> c,
                            stale |-> ~open[c]]]
          /\ UNCHANGED returned
  /\ UNCHANGED <<cfgVars, crashed, fault, gateVars, connVars, done, nEvents, budget>>

\* Mutant: the range goes on after the write.
Continued(call) ==
  [pc |-> "range", seq |-> call.seq, id |-> call.id, name |-> call.name,
   data |-> call.data, writes |-> call.writes + 1]

\* Mutant: the error of the write is dropped.
WriteResultNil(ok) == "nil"

\* return client.WriteMessage(...): the call ends with the write, and the
\* error of the write is what EventCall returns.
Returned(call) == Idle
WriteResult(ok) == IF ok THEN "nil" ELSE "error"

\* eventBytes, err := json.Marshal(event); client.WriteMessage(websocket.TextMessage, eventBytes)
\* (the bag came out of json.Unmarshal, so Marshal does not fail).
EventCallWrite(h, ok) ==
  /\ ~crashed
  /\ calls[h].pc = "write"
  /\ ok => open[calls[h].target]
  /\ \/ /\ sent' = [sent EXCEPT ![calls[h].target] =
                      IF ok
                      THEN Append(@, Frame(Envelope(calls[h].name, calls[h].data), calls[h].seq))
                      ELSE @]
        /\ calls' = [calls EXCEPT ![h] = Returned(calls[h])]
        /\ returned' = WriteResult(ok)
        /\ UNCHANGED <<cfgVars, crashed, fault, gateVars, done, nEvents, budget, pc, ctxID,
                       upgrade, clients, open, closes, deregs, greeted, inbox, handled>>
     \/ WriteRace(calls[h].target)

\* ------------------------------------------------------------- New and Listen
\* New(s, options...)
New(options) ==
  /\ ~crashed
  /\ Len(disgms) < MaxNew
  /\ listen.pc = "none"
  /\ defaultOptions' = Merged(defaultOptions, options)
  /\ disgms' = Append(disgms, Built(defaultOptions', options))
  /\ opt' = [TokenStore |-> defaultOptions'.TokenStore]
  /\ UNCHANGED <<mwVersion, wsVersion, listen, crashed, fault, gateVars, connVars, evVars>>

\* Listen, up to the go statement: the goroutine that runs d.fiber.Listen starts.
ListenGo ==
  /\ ~crashed
  /\ disgms # <<>>
  /\ listen.pc = "none"
  /\ listen' = [listen EXCEPT !.pc = "spawned", !.g = "running"]
  /\ UNCHANGED <<mwVersion, wsVersion, opt, defaultOptions, disgms, crashed, fault, gateVars,
                 connVars, evVars>>

\* return err: the value the named result holds at this moment.
ListenReturn ==
  /\ ~crashed
  /\ listen.pc = "spawned"
  /\ listen' = [listen EXCEPT !.pc = "returned", !.ret = listen.err]
  /\ UNCHANGED <<mwVersion, wsVersion, opt, defaultOptions, disgms, crashed, fault, gateVars,
                 connVars, evVars>>

\* The goroutine: d.fiber.Listen(port[0]) either serves (and blocks), or fails
\* to start and its error is assigned to err and logged.
FiberListen(ok) ==
  /\ ~crashed
  /\ listen.g = "running"
  /\ listen' = IF ok THEN [listen EXCEPT !.g = "serving"]
                ELSE [listen EXCEPT !.g = "failed", !.err = "error"]
  /\ UNCHANGED <<mwVersion, wsVersion, opt, defaultOptions, disgms, crashed, fault, gateVars,
                 connVars, evVars>>

\* ------------------------------------------------------------- specifications
Lifecycle(c) ==
  \/ Register(c)
  \/ \E ok \in BOOLEAN : Greet(c, ok)
  \/ NewWebSocketReturn(c)
  \/ HandlerError(c)
  \/ \E err \in BOOLEAN : ReadMessage(c, err)
  \/ MessageHandler(c)
  \/ HandleMessagesClose(c)
  \/ HandleMessagesDelete(c)
  \/ WebSocketReturn(c)

Dispatch ==
  \/ \E type \in EventTypes, raw \in Payloads : DiscordHandler(type, raw)
  \/ \E h \in Slots : EventCallRange(h)
  \/ \E h \in Slots, ok \in BOOLEAN : EventCallWrite(h, ok)

Next ==
  \/ Request
  \/ \E c \in Conns : Lifecycle(c)
  \/ Dispatch

Spec == Init /\ [][Next]_vars

\* The same server with one more event on the platform stream.
InitStream == Start(MaxEvents + 1)

SpecStream == InitStream /\ [][Next]_vars

\* The process from its start: the calls of New, then Listen.
InitNew ==
  /\ mwVersion \in Versions
  /\ wsVersion \in {"NewWebSocket", "WebSocket"}
  /\ defaultOptions = Defaults
  /\ opt = [TokenStore |-> Defaults.TokenStore]
  /\ disgms = <<>>
  /\ listen = NotListening
  /\ budget = MaxEvents
  /\ crashed = FALSE
  /\ fault = NoFault
  /\ last = NoReq
  /\ Fresh

NextNew ==
  \/ \E options \in Variadic : New(options)
  \/ ListenGo
  \/ ListenReturn
  \/ \E ok \in BOOLEAN : FiberListen(ok)

SpecNew == InitNew /\ [][NextNew]_vars

\* The gate alone, applied to every request, with the request kept for inspection.
GateNext == ObservedRequest

SpecGate == Init /\ [][GateNext]_vars

\* ------------------------------------------------------------- properties
\* The header carries no credential: absent, one word, or a scheme other than Bearer.
NoCredential(hdr) == Len(Split(hdr)) < 2 \/ Split(hdr)[1] # "Bearer"

\* The handler goroutine of the connection has ended.
Ended == {"done", "panicked"}

\* The event envelopes a connection was sent, as positions in its log.
EventFrames(c) == {i \in 1..Len(sent[c]) : sent[c][i].json}

\* The goroutine h takes a step of its EventCall and the process lives on.
Steps(h) == calls'[h] # calls[h] /\ ~crashed'

\* Scenario C of the specification.
ScenarioC == [name |-> "MESSAGE_CREATE",
              data |-> [guild_id |-> Str("guild-42"), content |-> Str("hi")]]

\* C1: a request whose Bearer credential is not in the table that Load() returns
\* is answered 401 Unauthorized and the next handler is not invoked, on any path.
C1_UnknownCredentialRejected ==
  (last.seen /\ HasBearer(last.hdr)
     /\ ~InTable(mwVersion, last.tokens, Credential(last.hdr)))
  => (last.out.status = StatusUnauthorized /\ last.out.nexts = 0)

C1_Witness ==
  /\ last.seen /\ HasBearer(last.hdr) /\ last.path = "/api/guild"
  /\ opt.TokenStore = "store" /\ ~last.loadErr /\ DOMAIN last.tokens # {}
  /\ ~InTable(mwVersion, last.tokens, Credential(last.hdr))
  /\ last.out.status = StatusUnauthorized

\* C2: a connection is in the clients registry only if its upgrade request went
\* through TokenMiddleware and was passed on by it for a credential the store
\* holds; a request the gate rejects (Bearer unknown) registers nothing.
C2_RegisteredOnlyThroughGate ==
  /\ \A c \in DOMAIN clients : upgrade[c].gate = "next" /\ upgrade[c].known
  /\ \A c \in Conns : pc[c] # "none" => (upgrade[c].gate = "next" /\ upgrade[c].known)

C2_Witness ==
  \E c \in DOMAIN clients : upgrade[c].gate = "next" /\ upgrade[c].known /\ pc[c] = "greet"

C4_Claim ==
  (last.seen /\ NoCredential(last.hdr))
  => (last.out.status = StatusUnauthorized /\ last.out.loads = 0)

\* C5: when Load() returns an error the answer is the 401 "Unauthorized" of an
\* unknown credential, not a 5xx; "ID" is not set and the next handler is not
\* invoked.
C5_LoadErrorUnauthorized ==
  (last.seen /\ last.loadErr /\ last.out.loads = 1)
  => /\ last.out.status = StatusUnauthorized
     /\ last.out.body = "Unauthorized"
     /\ last.out.status < 500
     /\ last.out.id = NoID
     /\ last.out.nexts = 0

C5_Witness ==
  /\ last.seen /\ last.loadErr /\ last.out.loads = 1
  /\ last.hdr = <<"Bearer", SP, "tok-1">>
  /\ last.out.status = StatusUnauthorized

\* C6 (as claimed): a connection is a key of the registry if and only if it is
\* open and has completed authentication (its handler has registered it).
C6_Claim ==
  \A c \in Conns :
    (c \in DOMAIN clients) <=> (open[c] /\ pc[c] \notin {"none", "upgraded"})

\* C7: right after registration, before any event has been dispatched, the
\* registry holds the connection, mapped to the WorkspaceID the gate bound for
\* its upgrade request; and every entry keeps that value.
C7_RegisteredWithBoundID ==
  /\ \A c \in Conns : pc[c] = "greet" => c \in DOMAIN clients
  /\ \A c \in DOMAIN clients : clients[c] = ctxID[c] /\ ctxID[c] \in WorkspaceIDs

C7_Witness ==
  \E c \in Conns :
    /\ pc[c] = "greet" /\ nEvents = 0
    /\ c \in DOMAIN clients /\ clients[c] = "guild-42" /\ ctxID[c] = "guild-42"

\* C8 (as claimed): once the handler of a closed connection has ended (peer
\* close, read error or failed greeting), the registry holds no entry for it,
\* and no EventCall issued after the close writes to it.
C8_Claim ==
  /\ \A c \in Conns : (pc[c] \in Ended /\ ~open[c]) => c \notin DOMAIN clients
  /\ \A h \in Slots : calls[h].pc = "write" => ~calls[h].stale

\* C9 (as claimed): when the greeting write fails, NewWebSocket's connection is
\* torn down without a read loop: the handle is closed and the connection is
\* removed from the registry.
C9_Claim ==
  \A c \in Conns :
    (wsVersion = "NewWebSocket" /\ pc[c] \in Ended /\ ~greeted[c])
    => (inbox[c] = 0 /\ ~open[c] /\ c \notin DOMAIN clients)

\* C10 (as claimed): over the lifetime of a registered connection, Close() of
\* the handle and deregistration are each performed exactly once.
C10_Claim ==
  \A c \in Conns : pc[c] \in Ended => (closes[c] = 1 /\ deregs[c] = 1)

\* C11: an event is written only to a connection registered under the guild_id
\* of the event: the target of a write and every envelope in a connection's
\* log carry the id bound to that connection; and when the range finds no
\* registered connection with that id, nothing is written and EventCall
\* returns nil.
C11_OnlyMatchingWorkspace ==
  /\ [](\A h \in Slots : calls[h].pc = "write" => ctxID[calls[h].target] = calls[h].id)
  /\ [](\A c \in Conns : \A i \in EventFrames(c) :
          sent[c][i].body.data["guild_id"].v = ctxID[c])
  /\ [][\A h \in Slots :
         (calls[h].pc = "range" /\ Matches(calls[h].id) = {} /\ Steps(h))
         => (sent' = sent /\ calls'[h].pc = "idle" /\ returned' = "nil")]_vars

C11_Witness ==
  \E c, d \in DOMAIN clients :
    /\ clients[c] = "guild-42" /\ clients[d] = "guild-99"
    /\ EventFrames(c) # {} /\ EventFrames(d) = {}
    /\ returned = "nil"

C13_AtMostOneWrite ==
  /\ \A h \in Slots : calls[h].pc \in {"range", "write"} => calls[h].writes = 0
  /\ \A n \in 1..nEvents :
       Cardinality(UNION { {<<c, i>> : i \in {j \in EventFrames(c) : sent[c][j].seq = n}} :
                             c \in Conns }) <= 1

C13_Witness ==
  \E c, d \in DOMAIN clients :
    /\ c # d /\ clients[c] = clients[d]
    /\ EventFrames(c) # {} /\ EventFrames(d) = {}
    /\ \A h \in Slots : calls[h].pc = "idle"

\* C14: an event of a kind outside the 20 allow-listed kinds is dropped at
\* once: json.Unmarshal is not called, EventCall is not called, nothing is
\* printed, no goroutine is in EventCall for it, nothing is written to a
\* connection and the registry is as before.
C14_OtherKindsDiscarded ==
  /\ [](Cardinality(events) = 20)
  /\ [](done.is = "other kind" => (~done.parsed /\ ~done.called /\ ~done.reported))
  /\ [][(nEvents' = nEvents + 1 /\ done'.is = "other kind")
        => (calls' = calls /\ sent' = sent /\ clients' = clients /\ returned' = returned)]_vars

C14_Witness ==
  /\ done.is = "other kind" /\ nEvents = 1
  /\ \E c \in DOMAIN clients : clients[c] = "guild-42" /\ open[c] /\ EventFrames(c) = {}

\* C15: an allow-listed event whose payload is no JSON object, or has no
\* guild_id, or a guild_id that is not a string, is dropped and reported:
\* EventCall is not called, nothing is written, and the handler returns with
\* the process alive and no goroutine left in a call.
C15_BadPayloadDiscarded ==
  /\ [](done.is \in {"unparsable", "no guild_id"}
          => (done.parsed /\ ~done.called /\ done.reported))
  /\ [][(nEvents' = nEvents + 1 /\ done'.is \in {"unparsable", "no guild_id"})
        => (calls' = calls /\ sent' = sent /\ clients' = clients /\ returned' = returned
            /\ ~crashed')]_vars

C15_Witness ==
  /\ done.is = "no guild_id" /\ done.reported /\ nEvents = 1
  /\ \E c \in DOMAIN clients : open[c] /\ EventFrames(c) = {}

\* C16: when the write of EventCall fails, EventCall returns the error and
\* ends (no second attempt), and the registry, the handles and the handler
\* goroutines of the connections are as before: the failing connection stays
\* registered.
C16_WriteErrorReturned ==
  [][\A h \in Slots :
       (calls[h].pc = "write" /\ Steps(h) /\ sent' = sent)
       => /\ returned' = "error"
          /\ calls'[h].pc = "idle"
          /\ clients' = clients
          /\ pc' = pc /\ open' = open]_vars

C16_Witness ==
  /\ returned = "error" /\ nEvents = 1
  /\ \A h \in Slots : calls[h].pc = "idle"
  /\ \E c \in DOMAIN clients : clients[c] = "guild-42" /\ EventFrames(c) = {}

\* The handler of c takes a step of its teardown: the read loop ends on an
\* error, the deferred Close and delete run, the older WebSocket unwinds; or
\* its delete ends in a fatal error of the runtime.
TearsDown(c) ==
  \/ /\ ~crashed'
     /\ <<pc[c], pc'[c]>> \in {<<"read", "close">>, <<"close", "delete">>, <<"delete", "done">>,
                               <<"delete", "unwind">>, <<"unwind", "done">>}
  \/ /\ pc[c] = "delete"
     /\ fault' = [why |-> "race", by |-> c]

\* C17 (as claimed): two dispatches of the same event that find the same
\* registry make the same delivery attempt: where two EventCalls for the same
\* event are about to range over the registry, there is one connection at
\* most for the range to stop at, so both attempts have the same target (and
\* the same envelope).
C17_Claim ==
  \A h, k \in Slots :
    (/\ h # k /\ calls[h].pc = "range" /\ calls[k].pc = "range"
     /\ calls[h].name = calls[k].name /\ calls[h].data = calls[k].data)
    => (/\ Cardinality(Matches(calls[h].id)) <= 1
        /\ Envelope(calls[h].name, calls[h].data) = Envelope(calls[k].name, calls[k].data))

\* C18 (as claimed): the envelopes in the log of a connection are in the
\* order in which their events arrived from the platform stream.
C18_Claim ==
  \A c \in Conns : \A i, j \in EventFrames(c) :
    i < j => sent[c][i].seq < sent[c][j].seq

\* C19 (as claimed): the accesses to the clients map are serialized: while an
\* EventCall ranges over the map no insert or delete takes effect, and no
\* access runs into another one (the runtime never reports a concurrent map
\* access).
C19_Claim ==
  /\ [](fault.why # "race")
  /\ [][(\E h \in Slots : calls[h].pc = "range" /\ calls'[h].pc = "range")
        => clients' = clients]_vars

\* C20 (as claimed): the teardown of one connection changes nothing of the
\* others: their registry entries, their handles, their handler goroutines
\* stay as they are, and so do the EventCalls in progress.
C20_Claim ==
  [][\A c \in Conns :
       TearsDown(c)
       => /\ \A d \in Conns \ {c} :
               /\ pc'[d] = pc[d] /\ open'[d] = open[d]
               /\ d \in DOMAIN clients' <=> d \in DOMAIN clients
               /\ d \in DOMAIN clients => clients'[d] = clients[d]
          /\ calls' = calls]_vars

\* C21 (as claimed): at most one registered connection is bound to a
\* WorkspaceID.
C21_Claim ==
  \A c, d \in DOMAIN clients : clients[c] = clients[d] => c = d

\* C25 (as claimed): when the greeting has been written, the read loop runs
\* on an open handle: no Close() of the handle has happened while the handler
\* is reading or handling messages.
C25_Claim ==
  \A c \in Conns :
    (greeted[c] /\ pc[c] \in {"read", "handle"}) => (open[c] /\ closes[c] = 0)

\* C26 (as claimed): the greeting is the first message written to a
\* connection: every event envelope in its log comes after the greeting.
C26_Claim ==
  \A c \in Conns : \A i \in EventFrames(c) :
    \E j \in 1..(i - 1) : ~sent[c][j].json /\ sent[c][j].body = Greeting

\* C28 (as claimed): the /ws handler of a connection whose greeting failed
\* returns normally: no handler panics, and the process does not die of a
\* handler panic.
C28_Claim ==
  /\ \A c \in Conns : pc[c] # "panicked"
  /\ fault.why # "handler"

\* C29 (as claimed): for a fixed table and a fixed credential the gate binds
\* the same WorkspaceID on every run: whatever id another run of
\* TokenMiddleware on the same request and table binds is the id this run bound.
C29_Claim ==
  last.seen =>
    \A o \in TokenMiddleware(mwVersion, opt.TokenStore, last.hdr, last.tokens, last.loadErr) :
      o.id = last.out.id

C27_Claim ==
  \A c \in Conns : Cardinality(WritersOf(c)) <= 1

\* What New makes of the caller's Options when it is the only call of New.
Own(given) ==
  [TokenStore |-> Merged(Defaults, given).TokenStore,
   DisableStartupMessage |-> Merged(Defaults, given).DisableStartupMessage,
   DisableLogger |-> Merged(Defaults, given).DisableLogger,
   WSMessageHandlerFunc |-> Built(Merged(Defaults, given), given).WSMessageHandlerFunc]

\* The options an instance runs with: those its opt points to, and its own
\* copy of the handler.
Effective(d) ==
  [TokenStore |-> defaultOptions.TokenStore,
   DisableStartupMessage |-> defaultOptions.DisableStartupMessage,
   DisableLogger |-> defaultOptions.DisableLogger,
   WSMessageHandlerFunc |-> d.WSMessageHandlerFunc]

\* The caller passed no handler: no Options at all, or Options without one.
NoHandlerGiven(given) == Len(given) = 0 \/ given[1].WSMessageHandlerFunc = "nil"
NoStoreGiven(given) == Len(given) = 0 \/ given[1].TokenStore = "nil"

\* C23 (as claimed): an instance made without a WSMessageHandlerFunc, New
\* with no Options included, runs its read loops with the default handler:
\* wherever its gate can let a connection in, its handler is the default one,
\* never nil.
C23_Claim ==
  \A i \in 1..Len(disgms) :
    (NoHandlerGiven(disgms[i].given) /\ opt.TokenStore # "nil")
    => disgms[i].WSMessageHandlerFunc = "default"

\* C24 (as claimed): when the Fiber server fails to start, Listen returns a
\* non-nil error, whichever of the goroutine and the return runs first.
C24_Claim ==
  (listen.pc = "returned" /\ listen.g = "failed") => listen.ret = "error"

\* C30 (as claimed): the options of an instance are those passed to its own
\* call of New, whatever other calls of New were passed; and an instance made
\* with no TokenStore rejects every request.
C30_Claim ==
  \A i \in 1..Len(disgms) :
    /\ Effective(disgms[i]) = Own(disgms[i].given)
    /\ disgms[i] = Built(Merged(Defaults, disgms[i].given), disgms[i].given)
    /\ NoStoreGiven(disgms[i].given)
       => \A hdr \in Headers, tokens \in Tables(mwVersion) :
            \A o \in TokenMiddleware(mwVersion, opt.TokenStore, hdr, tokens, FALSE) :
              o.kind # "next"

====
